---- MODULE Spec2Model ----
(***************************************************************************)
(* Model of main.py of the YouTube downloader bot: the per-user sliding    *)
(* window rate limiter (check_rate_limit), the two handlers the dispatcher *)
(* runs (handle_url for text messages, button_handler for button presses), *)
(* the download step (download_video / download_audio) with the files it   *)
(* leaves in TEMP_DIR, and the error classification of button_handler.     *)
(*                                                                         *)
(* Strings are sequences of one-character strings, so that substring       *)
(* tests, strip, split and slicing are computed as Python computes them.   *)
(* time.time() is a float: the clock counts ticks of 1/TicksPerSecond      *)
(* second, so that int() in check_rate_limit has something to truncate.    *)
(*                                                                         *)
(* The Application is built without concurrent_updates (main.py:612) and   *)
(* the handlers are registered blocking (main.py:628-632): the dispatcher  *)
(* takes one update at a time and awaits its handler to the end before it  *)
(* takes the next.  Sends of text messages are taken to succeed, except    *)
(* that Telegram refuses a keyboard with a callback_data of more than 64   *)
(* bytes; the upload of the artifact may fail.  time.time() does not go    *)
(* backwards.  main() is modelled from its call to run_polling; the        *)
(* handlers run once it polls.                                             *)
(***************************************************************************)
EXTENDS Integers, Sequences, FiniteSets, TLC

(* ------------------------------ bounds -------------------------------- *)
\* resolution of the clock: ticks per second
TicksPerSecond == 2
\* the clock runs over MaxHours rate-limit windows
MaxHours == 1
\* updates that may wait for the dispatcher at once
MaxQueue == 1
\* updates sent in one run of the rate-limiter environment
MaxUpdatesRate == 12
\* updates sent in one run of the bot's environment
MaxUpdatesBot == 2
\* updates sent in one run of the environment of many download runs
MaxUpdatesRuns == 12
\* characters by which the long error text exceeds the 120 shown, less one
MaxPad == 1
\* length of the free part of the titles given to sanitize_filename
MaxTail == 3

(* ------------------------ program constants --------------------------- *)
MAX_DOWNLOADS_PER_HOUR == 10
\* the literal 3600 of check_rate_limit and handle_url
WINDOW_SECONDS == 3600
MAX_FILE_SIZE == 49 * 1024 * 1024

WindowTicks == WINDOW_SECONDS * TicksPerSecond

Users == {1, 2}

(* ------------------------------ strings ------------------------------- *)
Whitespace == {" ", "\t", "\n"}

\* needle in hay
Contains(hay, needle) ==
    \E i \in 0..(Len(hay) - Len(needle)) :
        \A j \in 1..Len(needle) : hay[i + j] = needle[j]

\* s[:n]
Take(s, n) == SubSeq(s, 1, IF Len(s) < n THEN Len(s) ELSE n)

\* s.strip()
Strip(s) ==
    LET keep == {i \in 1..Len(s) : s[i] \notin Whitespace}
    IN  IF keep = {} THEN <<>>
        ELSE LET lo == CHOOSE i \in keep : \A j \in keep : i <= j
                 hi == CHOOSE i \in keep : \A j \in keep : j <= i
             IN  SubSeq(s, lo, hi)

\* int(x) of the rational n/d, d > 0: truncation toward zero
IntTrunc(n, d) == IF n >= 0 THEN n \div d ELSE -((-n) \div d)

S_youtube_com == <<"y", "o", "u", "t", "u", "b", "e", ".", "c", "o", "m">>
S_youtu_be == <<"y", "o", "u", "t", "u", ".", "b", "e">>
S_youtube_nocookie_com == <<"y", "o", "u", "t", "u", "b", "e", "-", "n", "o", "c", "o", "o", "k", "i", "e", ".", "c", "o", "m">>
S_video == <<"v", "i", "d", "e", "o">>
S_audio == <<"a", "u", "d", "i", "o">>
S_cancel == <<"c", "a", "n", "c", "e", "l">>
S_start == <<"s", "t", "a", "r", "t">>
S_about == <<"a", "b", "o", "u", "t">>
S_terms == <<"t", "e", "r", "m", "s">>
S_help_start == <<"h", "e", "l", "p", "_", "s", "t", "a", "r", "t">>
S_pipe == <<"|">>

\* texts a user sends
URL_A == <<"y", "o", "u", "t", "u", ".", "b", "e", "/", "a">>
URL_A_SPACED == <<" ", "y", "o", "u", "t", "u", ".", "b", "e", "/", "a">>
TEXT_HELLO == <<"h", "e", "l", "l", "o">>
\* a link of 59 characters: "youtu.be/" and 50 more
URL_LONG == URL_A \o [i \in 1..49 |-> "a"]

(* ------------------------- more string helpers ------------------------ *)
LowerOf ==
    ("A" :> "a") @@ ("B" :> "b") @@ ("C" :> "c") @@ ("D" :> "d") @@
    ("E" :> "e") @@ ("F" :> "f") @@ ("G" :> "g") @@ ("H" :> "h") @@
    ("I" :> "i") @@ ("J" :> "j") @@ ("K" :> "k") @@ ("L" :> "l") @@
    ("M" :> "m") @@ ("N" :> "n") @@ ("O" :> "o") @@ ("P" :> "p") @@
    ("Q" :> "q") @@ ("R" :> "r") @@ ("S" :> "s") @@ ("T" :> "t") @@
    ("U" :> "u") @@ ("V" :> "v") @@ ("W" :> "w") @@ ("X" :> "x") @@
    ("Y" :> "y") @@ ("Z" :> "z")

\* str.lower(), one character
Lower(c) == IF c \in DOMAIN LowerOf THEN LowerOf[c] ELSE c

\* s.lower()
LowerStr(s) == [i \in DOMAIN s |-> Lower(s[i])]

\* s starts with p at index i (1-based)
MatchAt(s, p, i) ==
    /\ i + Len(p) - 1 <= Len(s)
    /\ \A j \in 1..Len(p) : s[i + j - 1] = p[j]

\* s.replace(old, new) from index i on, old not empty: leftmost occurrences first
RECURSIVE ReplaceFrom(_, _, _, _)
ReplaceFrom(s, old, new, i) ==
    IF i > Len(s) THEN <<>>
    ELSE IF MatchAt(s, old, i) THEN new \o ReplaceFrom(s, old, new, i + Len(old))
    ELSE <<s[i]>> \o ReplaceFrom(s, old, new, i + 1)

Replace(s, old, new) == ReplaceFrom(s, old, new, 1)

\* a split that always gives two parts (as str.partition does)
Split1_pad(s, sep) ==
    LET at == {i \in 1..Len(s) : s[i] = sep}
    IN  IF at = {} THEN <<s, <<>>>>
        ELSE LET k == CHOOSE i \in at : \A j \in at : i <= j
             IN  <<SubSeq(s, 1, k - 1), SubSeq(s, k + 1, Len(s))>>

\* a split at every separator that keeps the first two parts
Split1_drop(s, sep) ==
    LET at == {i \in 1..Len(s) : s[i] = sep}
    IN  IF at = {} THEN <<s>>
        ELSE LET k == CHOOSE i \in at : \A j \in at : i <= j
                 rest == {i \in at : i > k}
                 e == IF rest = {} THEN Len(s) + 1
                      ELSE CHOOSE i \in rest : \A j \in rest : i <= j
             IN  <<SubSeq(s, 1, k - 1), SubSeq(s, k + 1, e - 1)>>

\* s.split(sep, 1), sep one character: one part without sep, else two
Split1(s, sep) ==
    LET at == {i \in 1..Len(s) : s[i] = sep}
    IN  IF at = {} THEN <<s>>
        ELSE LET k == CHOOSE i \in at : \A j \in at : i <= j
             IN  <<SubSeq(s, 1, k - 1), SubSeq(s, k + 1, Len(s))>>

DigitChar == <<"0", "1", "2", "3", "4", "5", "6", "7", "8", "9">>

\* str(n), n >= 0
RECURSIVE DecimalChars(_)
DecimalChars(n) ==
    IF n < 10 THEN <<DigitChar[n + 1]>>
    ELSE DecimalChars(n \div 10) \o <<DigitChar[(n % 10) + 1]>>

\* round(n/d) as the float formatting rounds an exactly representable value:
\* to nearest, ties to even
RoundHalfEven(n, d) ==
    LET q == n \div d
        r == n % d
    IN  IF 2 * r < d THEN q
        ELSE IF 2 * r > d THEN q + 1
        ELSE IF q % 2 = 0 THEN q ELSE q + 1

\* f"{n/d:.1f}"
OneDecimal(n, d) ==
    LET t == RoundHalfEven(n * 10, d)
    IN  DecimalChars(t \div 10) \o <<".">> \o DecimalChars(t % 10)

\* the keywords of the error classification
S_private == <<"p", "r", "i", "v", "a", "t", "e">>
S_sign_in == <<"s", "i", "g", "n", " ", "i", "n">>
S_age == <<"a", "g", "e">>
S_confirm_your_age ==
    <<"c", "o", "n", "f", "i", "r", "m", " ", "y", "o", "u", "r", " ", "a",
      "g", "e">>
S_copyright == <<"c", "o", "p", "y", "r", "i", "g", "h", "t">>
S_blocked == <<"b", "l", "o", "c", "k", "e", "d">>
S_unavailable == <<"u", "n", "a", "v", "a", "i", "l", "a", "b", "l", "e">>
S_ffmpeg == <<"f", "f", "m", "p", "e", "g">>
S_ffprobe == <<"f", "f", "p", "r", "o", "b", "e">>
S_timed_out == <<"t", "i", "m", "e", "d", " ", "o", "u", "t">>
S_timeout == <<"t", "i", "m", "e", "o", "u", "t">>
S_socket == <<"s", "o", "c", "k", "e", "t">>
S_file_too_large == <<"f", "i", "l", "e", " ", "t", "o", "o", " ", "l", "a", "r", "g", "e">>
S_49mb == <<"4", "9", "m", "b">>
S_50mb == <<"5", "0", "m", "b">>

TEMP_DIR == <<"t", "e", "m", "p", "_", "d", "o", "w", "n", "l", "o", "a", "d", "s">>
S_slash == <<"/">>
\* a sentinel with spaces in it
S_untitled_spaced ==
    <<"v", "i", "d", "e", "o", " ", "s", "i", "n", " ", "t", "i", "t", "u", "l", "o">>

S_untitled == <<"v", "i", "d", "e", "o", "_", "s", "i", "n", "_", "t", "i", "t", "u", "l", "o">>
S_default_title == <<"S", "i", "n", " ", "t", "i", "t", "u", "l", "o">>
S_mp4 == <<".", "m", "p", "4">>
S_mp3 == <<".", "m", "p", "3">>
S_m4a == <<".", "m", "4", "a">>
S_webm == <<".", "w", "e", "b", "m">>

\* the text of the exception of the size check, and error texts of the
\* extractor, the file system and the upload
S_size_head == <<"E", "l", " ", "a", "r", "c", "h", "i", "v", "o", " ", "(">>
S_size_mid ==
    <<"M", "B", ")", " ", "e", "x", "c", "e", "d", "e", " ", "e", "l", " ",
      "l", "i", "m", "i", "t", "e", " ", "d", "e", " ">>
S_size_tail ==
    <<"M", "B", ".", "\n", "V", "i", "d", "e", "o", "s", " ", "m", "a", "y",
      "o", "r", "e", "s", " ", "a", " ", "~", "1", "0", " ", "m", "i", "n",
      "u", "t", "o", "s", " ", "e", "n", " ", "7", "2", "0", "p", " ", "s",
      "u", "e", "l", "e", "n", " ", "s", "u", "p", "e", "r", "a", "r", " ",
      "e", "s", "t", "e", " ", "l", "i", "m", "i", "t", "e", ".">>
E_PRIVATE ==
    <<"E", "R", "R", "O", "R", ":", " ", "P", "r", "i", "v", "a", "t", "e",
      " ", "v", "i", "d", "e", "o">>
E_WEBPAGE ==
    <<"U", "n", "a", "b", "l", "e", " ", "t", "o", " ", "d", "o", "w", "n",
      "l", "o", "a", "d", " ", "w", "e", "b", "p", "a", "g", "e">>
E_UNAVAILABLE ==
    <<"V", "i", "d", "e", "o", " ", "u", "n", "a", "v", "a", "i", "l", "a",
      "b", "l", "e">>
E_FFMPEG ==
    <<"P", "o", "s", "t", "p", "r", "o", "c", "e", "s", "s", "i", "n", "g",
      ":", " ", "f", "f", "p", "r", "o", "b", "e", " ", "a", "n", "d", " ",
      "F", "F", "m", "p", "e", "g", " ", "n", "o", "t", " ", "f", "o", "u",
      "n", "d">>
E_TIMED_OUT == <<"T", "i", "m", "e", "d", " ", "o", "u", "t">>
E_FORBIDDEN ==
    <<"H", "T", "T", "P", " ", "E", "r", "r", "o", "r", " ", "4", "0", "3",
      ":", " ", "F", "o", "r", "b", "i", "d", "d", "e", "n">>
E_NOENT ==
    <<"[", "E", "r", "r", "n", "o", " ", "2", "]", " ", "N", "o", " ", "s",
      "u", "c", "h", " ", "f", "i", "l", "e", " ", "o", "r", " ", "d", "i",
      "r", "e", "c", "t", "o", "r", "y">>
E_PERM ==
    <<"[", "E", "r", "r", "n", "o", " ", "1", "3", "]", " ", "P", "e", "r",
      "m", "i", "s", "s", "i", "o", "n", " ", "d", "e", "n", "i", "e", "d">>

\* an error text of MaxPad + 121 characters that matches no keyword
LongError == [i \in 1..(121 + MaxPad) |-> "x"]


(* ------------------------------ helpers ------------------------------- *)
\* the character class without the asterisk
IllegalChars_nostar == {"<", ">", ":", "\"", "/", "\\", "|", "?"}

IllegalChars == {"<", ">", ":", "\"", "/", "\\", "|", "?", "*"}

\* re.sub(r'\s+', '_', s) from index i on: one "_" for each run of whitespace
RECURSIVE CollapseFrom(_, _)
CollapseFrom(s, i) ==
    IF i > Len(s) THEN <<>>
    ELSE IF s[i] \in Whitespace
    THEN (IF i > 1 /\ s[i - 1] \in Whitespace THEN <<>> ELSE <<"_">>)
            \o CollapseFrom(s, i + 1)
    ELSE <<s[i]>> \o CollapseFrom(s, i + 1)

sanitize_filename(filename) ==
    LET legal == SelectSeq(filename, LAMBDA c : c \notin IllegalChars)
        joined == CollapseFrom(Strip(legal), 1)
        cut == Take(joined, 50)
    IN  IF cut = <<>> THEN S_untitled ELSE cut

\* the loop of format_size: value is bytes_size/den after the divisions so far
RECURSIVE format_size_loop(_, _, _)
format_size_loop(bytes_size, den, units) ==
    IF units = <<>> THEN OneDecimal(bytes_size, den) \o <<" ", "T", "B">>
    ELSE IF bytes_size < 1024 * den
    THEN OneDecimal(bytes_size, den) \o <<" ">> \o Head(units)
    ELSE format_size_loop(bytes_size, den * 1024, Tail(units))

format_size(bytes_size) ==
    format_size_loop(bytes_size, 1, << <<"B">>, <<"K", "B">>, <<"M", "B">>, <<"G", "B">> >>)
format_duration(seconds) ==
    IF seconds < 0 THEN <<"0", ":", "0", "0">>
    ELSE LET secs == seconds % 60
             mins0 == seconds \div 60
             hours == mins0 \div 60
             mins == mins0 % 60
             ms == DecimalChars(mins) \o <<"m", " ">> \o DecimalChars(secs) \o <<"s">>
         IN  IF hours > 0 THEN DecimalChars(hours) \o <<"h", " ">> \o ms
             ELSE ms

\* a validation that takes every text that is not empty
is_valid_youtube_url_nonempty(url) == url # <<>>

is_valid_youtube_url(url) ==
    \/ Contains(url, S_youtube_com)
    \/ Contains(url, S_youtu_be)
    \/ Contains(url, S_youtube_nocookie_com)

(* ------------------------- error classification ----------------------- *)
\* the if/elif chain of button_handler with the first two branches swapped
classify_swapped(error_msg) ==
    IF \/ Contains(error_msg, S_copyright)
       \/ Contains(error_msg, S_blocked)
       \/ Contains(error_msg, S_unavailable)
    THEN "CopyrightOrBlocked"
    ELSE IF \/ Contains(error_msg, S_private)
            \/ Contains(error_msg, S_sign_in)
            \/ Contains(error_msg, S_age)
            \/ Contains(error_msg, S_confirm_your_age)
    THEN "RestrictedContent"
    ELSE IF Contains(error_msg, S_ffmpeg) \/ Contains(error_msg, S_ffprobe)
    THEN "ConverterMissing"
    ELSE IF \/ Contains(error_msg, S_timed_out)
            \/ Contains(error_msg, S_timeout)
            \/ Contains(error_msg, S_socket)
    THEN "UpstreamTimeout"
    ELSE IF \/ Contains(error_msg, S_file_too_large)
            \/ Contains(error_msg, S_49mb)
            \/ Contains(error_msg, S_50mb)
    THEN "SizeExceeded"
    ELSE "Unknown"

\* the if/elif chain of button_handler over error_msg = str(e).lower()
classify(error_msg) ==
    IF \/ Contains(error_msg, S_private)
       \/ Contains(error_msg, S_sign_in)
       \/ Contains(error_msg, S_age)
       \/ Contains(error_msg, S_confirm_your_age)
    THEN "RestrictedContent"
    ELSE IF \/ Contains(error_msg, S_copyright)
            \/ Contains(error_msg, S_blocked)
            \/ Contains(error_msg, S_unavailable)
    THEN "CopyrightOrBlocked"
    ELSE IF Contains(error_msg, S_ffmpeg) \/ Contains(error_msg, S_ffprobe)
    THEN "ConverterMissing"
    ELSE IF \/ Contains(error_msg, S_timed_out)
            \/ Contains(error_msg, S_timeout)
            \/ Contains(error_msg, S_socket)
    THEN "UpstreamTimeout"
    ELSE IF \/ Contains(error_msg, S_file_too_large)
            \/ Contains(error_msg, S_49mb)
            \/ Contains(error_msg, S_50mb)
    THEN "SizeExceeded"
    ELSE "Unknown"

\* the message of the exception the size check raises
SizeError(file_size) ==
    S_size_head \o OneDecimal(file_size, 1024 * 1024) \o S_size_mid
        \o DecimalChars(RoundHalfEven(MAX_FILE_SIZE, 1024 * 1024)) \o S_size_tail

\* the arguments of the user message, the error text left uncut
ErrorArgs_uncut(category, e) ==
    IF category = "SizeExceeded" THEN <<format_size(MAX_FILE_SIZE)>>
    ELSE IF category = "Unknown" THEN <<e>>
    ELSE <<>>

\* the arguments of the user message of a category
ErrorArgs(category, e) ==
    IF category = "SizeExceeded" THEN <<format_size(MAX_FILE_SIZE)>>
    ELSE IF category = "Unknown" THEN <<Take(e, 120)>>
    ELSE <<>>

(* --------------------------- rate limiter ----------------------------- *)
\* check_rate_limit with ">" for ">=": admits at quota
check_rate_limit_gt(ud, user_id, now) ==
    LET ud1 == IF user_id \in DOMAIN ud THEN ud ELSE ud @@ (user_id :> <<>>)
        kept == SelectSeq(ud1[user_id], LAMBDA t : now - t < WindowTicks)
    IN  IF Len(kept) > MAX_DOWNLOADS_PER_HOUR
        THEN [ud |-> [ud1 EXCEPT ![user_id] = kept], allowed |-> FALSE,
              info |-> IntTrunc(WindowTicks - (now - kept[1]), TicksPerSecond)]
        ELSE [ud |-> [ud1 EXCEPT ![user_id] = Append(kept, now)], allowed |-> TRUE,
              info |-> MAX_DOWNLOADS_PER_HOUR - (Len(kept) + 1)]

\* check_rate_limit pruning the record of every user at each call
check_rate_limit_pruneall(ud, user_id, now) ==
    LET ud1 == IF user_id \in DOMAIN ud THEN ud ELSE ud @@ (user_id :> <<>>)
        ud2 == [v \in DOMAIN ud1 |->
                    SelectSeq(ud1[v], LAMBDA t : now - t < WindowTicks)]
        kept == ud2[user_id]
    IN  IF Len(kept) >= MAX_DOWNLOADS_PER_HOUR
        THEN [ud |-> [ud2 EXCEPT ![user_id] = kept], allowed |-> FALSE,
              info |-> IntTrunc(WindowTicks - (now - kept[1]), TicksPerSecond)]
        ELSE [ud |-> [ud2 EXCEPT ![user_id] = Append(kept, now)], allowed |-> TRUE,
              info |-> MAX_DOWNLOADS_PER_HOUR - (Len(kept) + 1)]

\* check_rate_limit without the pruning of line 102
check_rate_limit_noprune(ud, user_id, now) ==
    LET ud1 == IF user_id \in DOMAIN ud THEN ud ELSE ud @@ (user_id :> <<>>)
        kept == ud1[user_id]
    IN  IF Len(kept) >= MAX_DOWNLOADS_PER_HOUR
        THEN [ud |-> [ud1 EXCEPT ![user_id] = kept], allowed |-> FALSE,
              info |-> IntTrunc(WindowTicks - (now - kept[1]), TicksPerSecond)]
        ELSE [ud |-> [ud1 EXCEPT ![user_id] = Append(kept, now)], allowed |-> TRUE,
              info |-> MAX_DOWNLOADS_PER_HOUR - (Len(kept) + 1)]

\* check_rate_limit putting the new timestamp in front of the record
check_rate_limit_prepend(ud, user_id, now) ==
    LET ud1 == IF user_id \in DOMAIN ud THEN ud ELSE ud @@ (user_id :> <<>>)
        kept == SelectSeq(ud1[user_id], LAMBDA t : now - t < WindowTicks)
    IN  IF Len(kept) >= MAX_DOWNLOADS_PER_HOUR
        THEN [ud |-> [ud1 EXCEPT ![user_id] = kept], allowed |-> FALSE,
              info |-> IntTrunc(WindowTicks - (now - kept[1]), TicksPerSecond)]
        ELSE [ud |-> [ud1 EXCEPT ![user_id] = <<now>> \o kept], allowed |-> TRUE,
              info |-> MAX_DOWNLOADS_PER_HOUR - (Len(kept) + 1)]

\* check_rate_limit keeping the timestamps that are exactly 3600 s old
check_rate_limit_le(ud, user_id, now) ==
    LET ud1 == IF user_id \in DOMAIN ud THEN ud ELSE ud @@ (user_id :> <<>>)
        kept == SelectSeq(ud1[user_id], LAMBDA t : now - t <= WindowTicks)
    IN  IF Len(kept) >= MAX_DOWNLOADS_PER_HOUR
        THEN [ud |-> [ud1 EXCEPT ![user_id] = kept], allowed |-> FALSE,
              info |-> IntTrunc(WindowTicks - (now - kept[1]), TicksPerSecond)]
        ELSE [ud |-> [ud1 EXCEPT ![user_id] = Append(kept, now)], allowed |-> TRUE,
              info |-> MAX_DOWNLOADS_PER_HOUR - (Len(kept) + 1)]

\* check_rate_limit measuring the wait from the newest kept timestamp
check_rate_limit_newest(ud, user_id, now) ==
    LET ud1 == IF user_id \in DOMAIN ud THEN ud ELSE ud @@ (user_id :> <<>>)
        kept == SelectSeq(ud1[user_id], LAMBDA t : now - t < WindowTicks)
    IN  IF Len(kept) >= MAX_DOWNLOADS_PER_HOUR
        THEN [ud |-> [ud1 EXCEPT ![user_id] = kept], allowed |-> FALSE,
              info |-> IntTrunc(WindowTicks - (now - kept[Len(kept)]), TicksPerSecond)]
        ELSE [ud |-> [ud1 EXCEPT ![user_id] = Append(kept, now)], allowed |-> TRUE,
              info |-> MAX_DOWNLOADS_PER_HOUR - (Len(kept) + 1)]

\* the new USER_DOWNLOADS and the pair (allowed, info) the call returns;
\* now is in ticks, the wait it returns in whole seconds
check_rate_limit(ud, user_id, now) ==
    LET ud1 == IF user_id \in DOMAIN ud THEN ud ELSE ud @@ (user_id :> <<>>)
        kept == SelectSeq(ud1[user_id], LAMBDA t : now - t < WindowTicks)
    IN  IF Len(kept) >= MAX_DOWNLOADS_PER_HOUR
        THEN [ud |-> [ud1 EXCEPT ![user_id] = kept], allowed |-> FALSE,
              info |-> IntTrunc(WindowTicks - (now - kept[1]), TicksPerSecond)]
        ELSE [ud |-> [ud1 EXCEPT ![user_id] = Append(kept, now)], allowed |-> TRUE,
              info |-> MAX_DOWNLOADS_PER_HOUR - (Len(kept) + 1)]

(* ------------------------------- state -------------------------------- *)
VARIABLES
    clock,           \* time.time(), in ticks
    USER_DOWNLOADS,  \* user id -> timestamps of the admitted requests
    queue,           \* updates sent by the users, not yet dispatched
    task,            \* the handler the dispatcher is running, with its locals
    replies,         \* what the running (or last) handler has sent, in order
    fs,              \* the files of TEMP_DIR: path -> size in bytes
    admits,          \* history: user id -> times of all admitted requests
    rl,              \* history: the last call of check_rate_limit
    lastDenied,      \* history: user id -> the user's latest check was a denial
    runs,            \* history: user id -> times the download step was started
    nrecv,           \* history: number of updates sent so far
    app,             \* main(): where it is, the token, the handlers, what it printed
    own              \* history: file -> the request that wrote it; the requests
                     \* ended; the files of one request another has touched

vars ==
    <<clock, USER_DOWNLOADS, queue, task, replies, fs, admits, rl, lastDenied,
      runs, nrecv, app, own>>

NoPath == <<>>

IdleTask ==
    [pc |-> "idle", kind |-> "none", user |-> 0, data |-> <<>>, slots |-> 0,
     inflight |-> 0, action |-> <<>>, url |-> <<>>, filepath |-> NoPath,
     dlpath |-> NoPath, written |-> NoPath, rawtitle |-> <<>>, title |-> <<>>,
     duration |-> 0, file_type |-> "none", file_size |-> 0, error |-> <<>>,
     started |-> FALSE, sized |-> FALSE, upload |-> "none", rmfail |-> FALSE,
     escaped |-> FALSE, id |-> 0]

NoCall ==
    [user |-> 0, now |-> 0, pre |-> <<>>, allowed |-> FALSE, info |-> 0,
     deniedBefore |-> FALSE]

\* the token Telegram has issued for the bot
TOKEN_REAL == "123:abc"
\* the default of os.environ.get when TELEGRAM_BOT_TOKEN is not set
TOKEN_FALLBACK == "pegatu_token_aqui"
\* the placeholder main compares the token with
TOKEN_PLACEHOLDER == "TU_TOKEN_AQUI"

\* the handlers main registers, in order
Handlers == <<"start", "help", "about", "handle_url", "button_handler">>

\* main has registered the handlers and run_polling is fetching updates
Polling ==
    [pc |-> "polling", env_set |-> TRUE, token |-> TOKEN_REAL,
     handlers |-> Handlers, printed |-> <<"banner">>]

\* no file written, no request ended
NoFiles == [file |-> <<>>, ended |-> {}, clash |-> {}]

\* the bot is polling, nothing has been sent to it yet
Init ==
    /\ app = Polling
    /\ own = NoFiles
    /\ clock = 0
    /\ USER_DOWNLOADS = <<>>
    /\ queue = <<>>
    /\ task = IdleTask
    /\ replies = <<>>
    /\ fs = <<>>
    /\ admits = [u \in Users |-> <<>>]
    /\ rl = NoCall
    /\ lastDenied = [u \in Users |-> FALSE]
    /\ runs = [u \in Users |-> <<>>]
    /\ nrecv = 0

(* ---------------------------- environment ----------------------------- *)
Instants ==
    {t \in {h * WindowTicks + i : h \in 0..MaxHours, i \in {-1, 0}} : t >= 0}

\* time passes
Tick ==
    /\ \E t \in Instants : t > clock /\ clock' = t
    /\ UNCHANGED <<own, app, USER_DOWNLOADS, queue, task, replies, fs, admits, rl, lastDenied, runs, nrecv>>

Record(ud, u) == IF u \in DOMAIN ud THEN ud[u] ELSE <<>>

InWindow(rec, now) == {i \in DOMAIN rec : now - rec[i] < WindowTicks}

\* updates of user u that are sent and not yet handled to the end
InFlight(u) ==
    Cardinality({i \in DOMAIN queue : queue[i].user = u})
        + (IF task.pc \notin {"idle", "done"} /\ task.user = u THEN 1 ELSE 0)

\* user u sends an update: a text message or a button press with payload data
Receive(u, kind, data, maxUpdates) ==
    /\ Len(queue) < MaxQueue
    /\ nrecv < maxUpdates
    /\ queue' = Append(queue,
            [kind |-> kind, user |-> u, data |-> data,
             slots |-> Cardinality(InWindow(Record(USER_DOWNLOADS, u), clock)),
             inflight |-> InFlight(u), id |-> nrecv + 1])
    /\ nrecv' = nrecv + 1
    /\ UNCHANGED <<own, app, clock, USER_DOWNLOADS, task, replies, fs, admits, rl, lastDenied, runs>>

\* a dispatcher that takes the next update also while the handler before it
\* awaits the upload of its artifact
Dispatch_eager ==
    /\ app.pc = "polling"
    /\ task.pc \in {"idle", "done", "bh_sending"}
    /\ queue # <<>>
    /\ LET upd == Head(queue)
       IN  task' = [IdleTask EXCEPT
                        !.pc = IF upd.kind = "text" THEN "hu_start" ELSE "bh_start",
                        !.kind = upd.kind, !.user = upd.user, !.data = upd.data,
                        !.slots = upd.slots, !.inflight = upd.inflight,
                        !.id = upd.id]
    /\ queue' = Tail(queue)
    /\ replies' = <<>>
    /\ own' = [own EXCEPT !.ended = IF task.pc = "done" THEN @ \cup {task.id} ELSE @]
    /\ UNCHANGED <<app, clock, USER_DOWNLOADS, fs, admits, rl, lastDenied, runs, nrecv>>

\* the dispatcher takes the next update once the handler before it has ended:
\* text goes to handle_url, a button press to button_handler
Dispatch ==
    /\ app.pc = "polling"
    /\ task.pc \in {"idle", "done"}
    /\ queue # <<>>
    /\ LET upd == Head(queue)
       IN  task' = [IdleTask EXCEPT
                        !.pc = IF upd.kind = "text" THEN "hu_start" ELSE "bh_start",
                        !.kind = upd.kind, !.user = upd.user, !.data = upd.data,
                        !.slots = upd.slots, !.inflight = upd.inflight,
                        !.id = upd.id]
    /\ queue' = Tail(queue)
    /\ replies' = <<>>
    /\ own' = [own EXCEPT !.ended = IF task.pc = "done" THEN @ \cup {task.id} ELSE @]
    /\ UNCHANGED <<app, clock, USER_DOWNLOADS, fs, admits, rl, lastDenied, runs, nrecv>>

Msg(kind, tpl, args, buttons) ==
    [kind |-> kind, tpl |-> tpl, args |-> args, buttons |-> buttons]

(* ----------------------------- handle_url ----------------------------- *)
\* handle_url up to its first reply: validation, rate limit, first message
HU_Start ==
    /\ task.pc = "hu_start"
    /\ LET url == Strip(task.data)
       IN  IF ~is_valid_youtube_url(url)
           THEN /\ replies' = Append(replies, Msg("text", "url_error", <<>>, <<>>))
                /\ task' = [task EXCEPT !.pc = "done", !.url = url]
                /\ UNCHANGED <<USER_DOWNLOADS, admits, rl, lastDenied>>
           ELSE LET r == check_rate_limit(USER_DOWNLOADS, task.user, clock)
                IN  /\ USER_DOWNLOADS' = r.ud
                    /\ rl' = [user |-> task.user, now |-> clock,
                              pre |-> Record(USER_DOWNLOADS, task.user),
                              allowed |-> r.allowed, info |-> r.info,
                              deniedBefore |-> lastDenied[task.user]]
                    /\ lastDenied' = [lastDenied EXCEPT ![task.user] = ~r.allowed]
                    /\ IF ~r.allowed
                       THEN LET hours == r.info \div 3600
                                minutes == (r.info % 3600) \div 60
                            IN  /\ replies' = Append(replies,
                                        Msg("text", "wait", <<hours, minutes>>, <<>>))
                                /\ task' = [task EXCEPT !.pc = "done", !.url = url]
                                /\ UNCHANGED admits
                       ELSE /\ replies' = Append(replies,
                                    Msg("text", "processing", <<>>, <<>>))
                            /\ task' = [task EXCEPT !.pc = "hu_info", !.url = url]
                            /\ admits' = [admits EXCEPT
                                            ![task.user] = Append(@, clock)]
    /\ UNCHANGED <<own, app, clock, queue, fs, runs, nrecv>>

\* what extract_video_info returns: None, or the fields handle_url shows
NoInfo == [found |-> FALSE, title |-> <<>>, duration |-> 0]

\* the bytes Telegram takes as the callback_data of a button (Bot API,
\* InlineKeyboardButton: 1-64 bytes); a message with a longer one is refused
CALLBACK_DATA_MAX == 64

\* handle_url after the first reply: metadata (None on any failure), the three
\* buttons, the edit of the first message.  When Telegram refuses the
\* keyboard, edit_text raises and the exception leaves handle_url
HU_Info(video_info) ==
    /\ task.pc = "hu_info"
    /\ LET keyboard == << S_video \o S_pipe \o task.url,
                          S_audio \o S_pipe \o task.url,
                          S_cancel >>
           refused == \E i \in DOMAIN keyboard : Len(keyboard[i]) > CALLBACK_DATA_MAX
       IN  IF refused
           THEN /\ replies' = replies
                /\ task' = [task EXCEPT !.pc = "done", !.escaped = TRUE]
           ELSE /\ task' = [task EXCEPT !.pc = "done"]
                /\ IF video_info.found
                   THEN replies' = Append(replies,
                            Msg("edit", "found",
                                <<sanitize_filename(video_info.title),
                                  format_duration(video_info.duration)>>,
                                keyboard))
                   ELSE replies' = Append(replies,
                            Msg("edit", "detected", <<>>, keyboard))
    /\ UNCHANGED <<own, app, clock, USER_DOWNLOADS, queue, fs, admits, rl, lastDenied, runs, nrecv>>

(* --------------------------- button_handler --------------------------- *)
JoinPath(dir, name) == dir \o S_slash \o name

\* the files of fs without path p
RemoveFile(files, p) == [q \in DOMAIN files \ {p} |-> files[q]]

\* the files of fs with path p holding size bytes
WriteFile(files, p, size) ==
    [q \in DOMAIN files \cup {p} |-> IF q = p THEN size ELSE files[q]]

\* the running request writes or removes path p: noted when p is the file of
\* another request, with whether that request had ended
Clash(o, p) ==
    IF p \in DOMAIN o.file /\ o.file[p] # task.id
    THEN o.clash \cup {[owner |-> o.file[p], by |-> task.id, path |-> p,
                        ended |-> o.file[p] \in o.ended]}
    ELSE o.clash

\* to the except block of button_handler with exception text e
Raise(t, e) == [t EXCEPT !.pc = "bh_except", !.error = e]

\* button_handler up to its first edit of the message: the literal payloads,
\* the split of the payload, the status message
BH_Start ==
    /\ task.pc = "bh_start"
    /\ LET data == task.data
           parts == Split1(data, "|")
       IN  IF data = S_start
           THEN /\ replies' = Append(replies,
                        Msg("edit", "welcome", <<>>, <<S_about, S_terms, S_help_start>>))
                /\ task' = [task EXCEPT !.pc = "done"]
           ELSE IF data \in {S_about, S_terms, S_help_start}
           THEN /\ replies' = Append(replies,
                        Msg("edit",
                            IF data = S_about THEN "about"
                            ELSE IF data = S_terms THEN "terms" ELSE "help_start",
                            <<>>, <<S_start>>))
                /\ task' = [task EXCEPT !.pc = "done"]
           ELSE IF data = S_cancel
           THEN /\ replies' = Append(replies, Msg("edit", "cancelled", <<>>, <<>>))
                /\ task' = [task EXCEPT !.pc = "done"]
           ELSE IF Len(parts) # 2
           THEN /\ replies' = Append(replies, Msg("edit", "data_error", <<>>, <<>>))
                /\ task' = [task EXCEPT !.pc = "done"]
           ELSE /\ replies' = Append(replies,
                        Msg("edit",
                            IF parts[1] = S_video THEN "status_video" ELSE "status_audio",
                            <<>>, <<>>))
                /\ task' = [task EXCEPT !.pc = "bh_download",
                                        !.action = parts[1], !.url = parts[2]]
    /\ UNCHANGED <<own, app, clock, USER_DOWNLOADS, queue, fs, admits, rl, lastDenied, runs, nrecv>>

\* the try block is entered and download_video or download_audio is called:
\* the call blocks until BH_Extract and BH_Rename are done
BH_Download ==
    /\ task.pc = "bh_download"
    /\ task' = [task EXCEPT !.pc = "dl_extract", !.started = TRUE]
    /\ runs' = [runs EXCEPT ![task.user] = Append(@, clock)]
    /\ UNCHANGED <<own, app, clock, USER_DOWNLOADS, queue, replies, fs, admits, rl, lastDenied, nrecv>>

\* extensions prepare_filename may give for the format downloaded
VideoExts == {S_mp4, S_webm}
AudioExts == {S_m4a, S_webm}

\* ydl.extract_info(url, download=True) and prepare_filename, with outcome o of
\* the extractor and converter: it fails before a file is written, it fails
\* after the downloaded file is written (the converter is missing or fails),
\* or it returns with the file written
BH_Extract(o) ==
    /\ task.pc = "dl_extract"
    /\ LET isVideo == task.action = S_video
           prepared == JoinPath(TEMP_DIR, o.native \o o.ext)
           produced == IF isVideo THEN prepared
                       ELSE JoinPath(TEMP_DIR, o.native \o S_mp3)
       IN  /\ o.ext \in (IF isVideo THEN VideoExts ELSE AudioExts)
           /\ IF o.status = "fail_early"
              THEN /\ task' = Raise(task, o.err)
                   /\ fs' = fs
                   /\ own' = own
              ELSE IF o.status = "fail_late"
              THEN /\ task' = [Raise(task, o.err) EXCEPT !.written = prepared]
                   /\ fs' = WriteFile(fs, prepared, o.size)
                   /\ own' = [own EXCEPT !.file = WriteFile(@, prepared, task.id),
                                         !.clash = Clash(own, prepared)]
              ELSE /\ task' = [task EXCEPT
                        !.pc = "dl_rename",
                        !.written = produced,
                        !.dlpath = IF isVideo THEN prepared
                                   ELSE Replace(Replace(prepared, S_m4a, S_mp3),
                                                S_webm, S_mp3),
                        !.rawtitle = o.title,
                        !.duration = o.duration]
                   /\ fs' = WriteFile(fs, produced, o.size)
                   /\ own' = [own EXCEPT !.file = WriteFile(@, produced, task.id),
                                         !.clash = Clash(own, produced)]
    /\ UNCHANGED <<app, clock, USER_DOWNLOADS, queue, replies, admits, rl, lastDenied, runs, nrecv>>

\* the size check with the limit itself refused
TooLarge_ge(file_size) == file_size >= MAX_FILE_SIZE

\* the size check of button_handler
TooLarge(file_size) == file_size > MAX_FILE_SIZE

\* the rest of download_video / download_audio (the move to the sanitized
\* path), its return into button_handler, the size check and the start of the
\* upload.  rm_ok, mv_ok: whether os.remove and os.rename succeed
BH_Rename(rm_ok, mv_ok) ==
    /\ task.pc = "dl_rename"
    /\ LET isVideo == task.action = S_video
           title == sanitize_filename(task.rawtitle)
           safe_path == JoinPath(TEMP_DIR, title \o (IF isVideo THEN S_mp4 ELSE S_mp3))
           differs == task.dlpath # safe_path
           stale == differs /\ safe_path \in DOMAIN fs
           fs1 == IF stale THEN RemoveFile(fs, safe_path) ELSE fs
           moved == differs /\ task.dlpath \in DOMAIN fs1 /\ mv_ok
           fs2 == IF moved
                  THEN WriteFile(RemoveFile(fs1, task.dlpath), safe_path, fs1[task.dlpath])
                  ELSE fs1
           of1 == IF stale THEN RemoveFile(own.file, safe_path) ELSE own.file
           of2 == IF moved
                  THEN WriteFile(RemoveFile(of1, task.dlpath), safe_path,
                                 of1[task.dlpath])
                  ELSE of1
           filepath == IF moved THEN safe_path ELSE task.dlpath
           written == IF stale /\ task.written = safe_path THEN NoPath
                      ELSE IF moved /\ task.written = task.dlpath THEN safe_path
                      ELSE task.written
           returned == [task EXCEPT !.filepath = filepath, !.title = title,
                                    !.written = written,
                                    !.file_type = IF isVideo THEN "video" ELSE "audio"]
       IN  IF stale /\ ~rm_ok
           THEN /\ task' = Raise(task, E_PERM)
                /\ fs' = fs
                /\ own' = own
           ELSE /\ fs' = fs2
                /\ own' = [own EXCEPT !.file = of2,
                                      !.clash = IF stale THEN Clash(own, safe_path)
                                                ELSE @]
                /\ IF filepath \notin DOMAIN fs2
                   THEN task' = Raise(returned, E_NOENT)
                   ELSE IF TooLarge(fs2[filepath])
                   THEN task' = Raise([returned EXCEPT !.file_size = fs2[filepath],
                                                       !.sized = TRUE],
                                      SizeError(fs2[filepath]))
                   ELSE task' = [returned EXCEPT !.pc = "bh_sending",
                                                 !.file_size = fs2[filepath],
                                                 !.sized = TRUE,
                                                 !.upload = "started"]
    /\ UNCHANGED <<app, clock, USER_DOWNLOADS, queue, replies, admits, rl, lastDenied, runs, nrecv>>

\* a caption with the title left uncut and the size before the duration
Caption_swapped(title, duration, file_size) ==
    <<title, format_size(file_size), format_duration(duration)>>

\* the values the caption of the artifact is built from
Caption(title, duration, file_size) ==
    <<Take(title, 45), format_duration(duration), format_size(file_size)>>

\* a send that removes the file itself as soon as the upload has failed
BH_Send_cleanup(sent, e) ==
    /\ task.pc = "bh_sending"
    /\ IF sent
       THEN /\ replies' = replies \o
                    << Msg(task.file_type, "caption",
                           Caption(task.title, task.duration, task.file_size), <<>>),
                       Msg("text", "completed", <<>>, <<S_start, S_help_start>>) >>
            /\ task' = [task EXCEPT !.pc = "bh_finally", !.upload = "sent"]
            /\ fs' = fs
            /\ own' = own
       ELSE /\ replies' = replies
            /\ task' = [Raise(task, e) EXCEPT !.upload = "failed"]
            /\ fs' = RemoveFile(fs, task.filepath)
            /\ own' = [own EXCEPT !.file = RemoveFile(@, task.filepath)]
    /\ UNCHANGED <<app, clock, USER_DOWNLOADS, queue, admits, rl, lastDenied, runs, nrecv>>

\* reply_video / reply_audio returns or raises; after it the completion message
BH_Send(sent, e) ==
    /\ task.pc = "bh_sending"
    /\ IF sent
       THEN /\ replies' = replies \o
                    << Msg(task.file_type, "caption",
                           Caption(task.title, task.duration, task.file_size), <<>>),
                       Msg("text", "completed", <<>>, <<S_start, S_help_start>>) >>
            /\ task' = [task EXCEPT !.pc = "bh_finally", !.upload = "sent"]
       ELSE /\ replies' = replies
            /\ task' = [Raise(task, e) EXCEPT !.upload = "failed"]
    /\ UNCHANGED <<own, app, clock, USER_DOWNLOADS, queue, fs, admits, rl, lastDenied, runs, nrecv>>

\* the except block: classification, the user message, retry and start buttons
BH_Except ==
    /\ task.pc = "bh_except"
    /\ LET category == classify(LowerStr(task.error))
       IN  replies' = Append(replies,
                Msg("text", category, ErrorArgs(category, task.error),
                    <<task.action \o S_pipe \o task.url, S_start>>))
    /\ task' = [task EXCEPT !.pc = "bh_finally"]
    /\ UNCHANGED <<own, app, clock, USER_DOWNLOADS, queue, fs, admits, rl, lastDenied, runs, nrecv>>

\* the finally block: the file at filepath is removed when there is one
BH_Finally(rm_ok) ==
    /\ task.pc = "bh_finally"
    /\ IF task.filepath # NoPath /\ task.filepath \in DOMAIN fs
       THEN IF rm_ok
            THEN /\ fs' = RemoveFile(fs, task.filepath)
                 /\ own' = [own EXCEPT !.file = RemoveFile(@, task.filepath)]
                 /\ task' = [task EXCEPT !.pc = "done"]
            ELSE /\ fs' = fs
                 /\ own' = own
                 /\ task' = [task EXCEPT !.pc = "done", !.rmfail = TRUE]
       ELSE /\ fs' = fs
            /\ own' = own
            /\ task' = [task EXCEPT !.pc = "done"]
    /\ UNCHANGED <<app, clock, USER_DOWNLOADS, queue, replies, admits, rl, lastDenied, runs, nrecv>>

(* -------------------- the rate limiter's environment ------------------ *)
\* users send valid links only and nothing else; the clock runs freely
NextRate ==
    \/ Tick
    \/ \E u \in Users : Receive(u, "text", URL_A, MaxUpdatesRate)
    \/ Dispatch
    \/ HU_Start
    \/ HU_Info(NoInfo)

SpecRate == Init /\ [][NextRate]_vars

(* ------------------------ the bot's environment ----------------------- *)
P_video_A == S_video \o S_pipe \o URL_A
P_audio_A == S_audio \o S_pipe \o URL_A
\* a payload whose action is neither video nor audio
P_other_A == <<"x">> \o S_pipe \o URL_A
\* a payload whose url holds the separator
P_video_piped == S_video \o S_pipe \o URL_A \o S_pipe \o <<"b">>
\* a payload without separator that is no literal
P_malformed == <<"x">>

TextsBot == {URL_A, URL_A_SPACED, TEXT_HELLO, URL_LONG}

PayloadsBot ==
    {S_start, S_about, S_terms, S_help_start, S_cancel, P_malformed,
     P_video_A, P_audio_A, P_other_A, P_video_piped}

\* what extract_video_info may return
InfosBot == {NoInfo, [found |-> TRUE, title |-> <<"a", "?">>, duration |-> 3661]}

\* titles with the file name the extractor derives from them (restrictfilenames)
TitleNames == { <<<<"a">>, <<"a">>>>, <<<<"a", "&">>, <<"a", "_">>>> }

SizesBot == {1024, MAX_FILE_SIZE, MAX_FILE_SIZE + 1}

DurationsBot == {-1, 59, 3661}

Outcome(status, err, tn, ext, size, duration) ==
    [status |-> status, err |-> err, title |-> tn[1], native |-> tn[2],
     ext |-> ext, size |-> size, duration |-> duration]

\* outcomes of the extractor and converter
OutcomesBot ==
    {Outcome("fail_early", e, <<<<>>, <<>>>>, x, 0, 0) :
        e \in {E_PRIVATE, E_FORBIDDEN, LongError}, x \in {S_mp4, S_m4a}}
    \cup {Outcome("fail_late", E_FFMPEG, tn, x, MAX_FILE_SIZE, 0) :
        tn \in TitleNames, x \in VideoExts \cup AudioExts}
    \cup {Outcome("ok", <<>>, tn, x, s, d) :
        tn \in TitleNames, x \in VideoExts \cup AudioExts,
        s \in SizesBot, d \in DurationsBot}

\* users send texts and press buttons; the extractor, the file system and the
\* upload succeed or fail
Next ==
    \/ \E u \in Users, t \in TextsBot : Receive(u, "text", t, MaxUpdatesBot)
    \/ \E u \in Users, p \in PayloadsBot : Receive(u, "callback", p, MaxUpdatesBot)
    \/ Dispatch
    \/ HU_Start
    \/ \E i \in InfosBot : HU_Info(i)
    \/ BH_Start
    \/ BH_Download
    \/ \E o \in OutcomesBot : BH_Extract(o)
    \/ \E rm_ok, mv_ok \in BOOLEAN : BH_Rename(rm_ok, mv_ok)
    \/ \E sent \in BOOLEAN : BH_Send(sent, E_TIMED_OUT)
    \/ BH_Except
    \/ \E rm_ok \in BOOLEAN : BH_Finally(rm_ok)

Spec == Init /\ [][Next]_vars

(* --------------------- the environment of many runs ------------------- *)
\* one user sends a valid link and, once handle_url has shown the buttons for
\* it, presses the video button again and again (the format button, then the
\* retry button of each failure); the extractor
\* fails before it writes a file; the clock runs freely
RunUsers == {1}

NextRuns ==
    \/ Tick
    \/ \E u \in RunUsers : Receive(u, "text", URL_A, MaxUpdatesRuns)
    \/ \E u \in RunUsers :
           /\ admits[u] # <<>>
           /\ task.pc # "hu_info"
           /\ Receive(u, "callback", P_video_A, MaxUpdatesRuns)
    \/ Dispatch
    \/ HU_Start
    \/ HU_Info(NoInfo)
    \/ BH_Start
    \/ BH_Download
    \/ BH_Extract(Outcome("fail_early", E_FORBIDDEN, <<<<>>, <<>>>>, S_mp4, 0, 0))
    \/ BH_Except
    \/ BH_Finally(TRUE)

SpecRuns == Init /\ [][NextRuns]_vars

(* ------------------- the error classifier's environment --------------- *)
\* pieces error texts are put together from: every keyword, some in capitals,
\* and pieces that match no keyword
ErrorPieces ==
    {S_private, S_sign_in, S_age, S_confirm_your_age, S_copyright, S_blocked,
     S_unavailable, S_ffmpeg, S_ffprobe, S_timed_out, S_timeout, S_socket,
     S_file_too_large, S_49mb, S_50mb,
     <<"P", "r", "i", "v", "a", "t", "e">>, <<"F", "F", "m", "p", "e", "g">>,
     <<"4", "9", "M", "B">>, <<"a", "g">>, <<"e">>, <<"x">>, <<>>}

\* texts of at most two pieces, joined directly or by a blank
ErrorTexts ==
    {a \o sep \o b : a \in ErrorPieces \ {<<>>}, b \in ErrorPieces,
                     sep \in {<<>>, <<" ">>}}

\* button_handler has caught an exception with one of the texts
InitClassify ==
    /\ app = Polling
    /\ own = NoFiles
    /\ clock = 0
    /\ USER_DOWNLOADS = <<>>
    /\ queue = <<>>
    /\ \E e \in ErrorTexts, p \in {P_video_A, P_audio_A} :
           task = [IdleTask EXCEPT !.pc = "bh_except", !.kind = "callback",
                                   !.user = 1, !.data = p,
                                   !.action = Split1(p, "|")[1],
                                   !.url = Split1(p, "|")[2], !.error = e,
                                   !.started = TRUE, !.id = 1]
    /\ replies = <<Msg("edit",
                       IF task.action = S_video THEN "status_video" ELSE "status_audio",
                       <<>>, <<>>)>>
    /\ fs = <<>>
    /\ admits = [u \in Users |-> <<>>]
    /\ rl = NoCall
    /\ lastDenied = [u \in Users |-> FALSE]
    /\ runs = [u \in Users |-> IF u = 1 THEN <<0>> ELSE <<>>]
    /\ nrecv = 1

NextClassify ==
    \/ BH_Except
    \/ BH_Finally(TRUE)

SpecClassify == InitClassify /\ [][NextClassify]_vars

(* --------------------- sanitize_filename on its own ------------------- *)
\* characters of the titles: a letter, whitespace, illegal characters
TitleAlphabet == {"a", " ", "\t", "*", "/"}

\* the strings over TitleAlphabet of at most n characters
RECURSIVE TitleStrings(_)
TitleStrings(n) ==
    IF n = 0 THEN {<<>>}
    ELSE TitleStrings(n - 1)
            \cup {Append(t, c) : t \in TitleStrings(n - 1), c \in TitleAlphabet}

\* titles: short ones, and ones that reach or pass the cut at 50 characters
\* with every string of at most MaxTail characters around the cut
TitleInputs ==
    TitleStrings(MaxTail)
        \cup {[i \in 1..k |-> "a"] \o t :
                 k \in (50 - MaxTail)..50, t \in TitleStrings(MaxTail)}

\* sanitize_filename is about to be called with a title
InitSanitize ==
    /\ app = Polling
    /\ own = NoFiles
    /\ clock = 0
    /\ USER_DOWNLOADS = <<>>
    /\ queue = <<>>
    /\ \E t \in TitleInputs :
           task = [IdleTask EXCEPT !.pc = "sanitize_call", !.rawtitle = t]
    /\ replies = <<>>
    /\ fs = <<>>
    /\ admits = [u \in Users |-> <<>>]
    /\ rl = NoCall
    /\ lastDenied = [u \in Users |-> FALSE]
    /\ runs = [u \in Users |-> <<>>]
    /\ nrecv = 0

\* the call returns
ApplySanitize ==
    /\ task.pc = "sanitize_call"
    /\ task' = [task EXCEPT !.pc = "sanitize_ret",
                            !.title = sanitize_filename(task.rawtitle)]
    /\ UNCHANGED <<own, app, clock, USER_DOWNLOADS, queue, replies, fs, admits, rl,
                   lastDenied, runs, nrecv>>

SpecSanitize == InitSanitize /\ [][ApplySanitize]_vars

(* ------------------------------- main --------------------------------- *)
\* the environment variable TELEGRAM_BOT_TOKEN: not set, or set to a value
Envs ==
    {[set |-> FALSE, value |-> ""]}
        \cup {[set |-> TRUE, value |-> v] :
                 v \in {"", TOKEN_PLACEHOLDER, TOKEN_REAL, "123:revoked"}}

\* os.environ.get("TELEGRAM_BOT_TOKEN", "pegatu_token_aqui")
BOT_TOKEN(env) == IF env.set THEN env.value ELSE TOKEN_FALLBACK

\* the module is imported and main is called
InitMain ==
    /\ \E env \in Envs :
           app = [pc |-> "main", env_set |-> env.set, token |-> BOT_TOKEN(env),
                  handlers |-> <<>>, printed |-> <<>>]
    /\ own = NoFiles
    /\ clock = 0
    /\ USER_DOWNLOADS = <<>>
    /\ queue = <<>>
    /\ task = IdleTask
    /\ replies = <<>>
    /\ fs = <<>>
    /\ admits = [u \in Users |-> <<>>]
    /\ rl = NoCall
    /\ lastDenied = [u \in Users |-> FALSE]
    /\ runs = [u \in Users |-> <<>>]
    /\ nrecv = 0

\* the token test of main: an empty token or the placeholder is refused
Main_CheckToken ==
    /\ app.pc = "main"
    /\ IF app.token = "" \/ app.token = TOKEN_PLACEHOLDER
       THEN app' = [app EXCEPT !.pc = "returned",
                               !.printed = Append(@, "token_not_configured")]
       ELSE app' = [app EXCEPT !.pc = "build"]
    /\ UNCHANGED <<own, clock, USER_DOWNLOADS, queue, task, replies, fs, admits, rl,
                   lastDenied, runs, nrecv>>

\* Application.builder().token(BOT_TOKEN).post_init(post_init).build() returns
\* or raises; main prints the start error and returns when it raises
Main_Build(raises) ==
    /\ app.pc = "build"
    /\ IF raises
       THEN app' = [app EXCEPT !.pc = "returned",
                               !.printed = Append(@, "start_error")]
       ELSE app' = [app EXCEPT !.pc = "register"]
    /\ UNCHANGED <<own, clock, USER_DOWNLOADS, queue, task, replies, fs, admits, rl,
                   lastDenied, runs, nrecv>>

\* the five handlers are added and the banner is printed
Main_Register ==
    /\ app.pc = "register"
    /\ app' = [app EXCEPT !.pc = "run_polling", !.handlers = Handlers,
                          !.printed = Append(@, "banner")]
    /\ UNCHANGED <<own, clock, USER_DOWNLOADS, queue, task, replies, fs, admits, rl,
                   lastDenied, runs, nrecv>>

\* application.run_polling(): with the token Telegram has issued the bot
\* fetches updates; with any other token Telegram refuses the first request
\* and the exception leaves run_polling and main
Main_RunPolling ==
    /\ app.pc = "run_polling"
    /\ app' = [app EXCEPT !.pc = IF app.token = TOKEN_REAL THEN "polling"
                                 ELSE "crashed"]
    /\ UNCHANGED <<own, clock, USER_DOWNLOADS, queue, task, replies, fs, admits, rl,
                   lastDenied, runs, nrecv>>

\* the bot from the call of main on
NextMain ==
    \/ Main_CheckToken
    \/ \E raises \in BOOLEAN : Main_Build(raises)
    \/ Main_Register
    \/ Main_RunPolling
    \/ Next

SpecMain == InitMain /\ [][NextMain]_vars

(* ------------------------- rate limiter claims ------------------------ *)
\* the admitted requests of the user of the last check_rate_limit call, as
\* they were before that call
AdmitsBefore ==
    IF rl.allowed
    THEN SubSeq(admits[rl.user], 1, Len(admits[rl.user]) - 1)
    ELSE admits[rl.user]

\* those admitted less than 3600 seconds before the call
RecentAdmits == {i \in DOMAIN AdmitsBefore : rl.now - AdmitsBefore[i] < WindowTicks}

\* the time of the oldest of them
OldestRecent ==
    LET times == {AdmitsBefore[i] : i \in RecentAdmits}
    IN  CHOOSE t \in times : \A x \in times : t <= x

AtQuota == rl.user \in Users /\ Cardinality(RecentAdmits) >= MAX_DOWNLOADS_PER_HOUR

\* C1 as stated: with 10 requests admitted less than 3600 s before now, the
\* call at now is denied and the wait it returns equals 3600 - (now - t1)
\* exactly, t1 the time of the oldest of the 10.
C1_WaitExact ==
    AtQuota =>
        /\ ~rl.allowed
        /\ rl.info * TicksPerSecond = WindowTicks - (rl.now - OldestRecent)

\* C1 amended: with 10 requests admitted less than 3600 s before now, the
\* call at now is denied and the wait it returns is 3600 - (now - t1) cut to
\* whole seconds: wait <= 3600 - (now - t1) < wait + 1.
C1_WaitTruncated ==
    AtQuota =>
        /\ ~rl.allowed
        /\ rl.info * TicksPerSecond <= WindowTicks - (rl.now - OldestRecent)
        /\ WindowTicks - (rl.now - OldestRecent) < (rl.info + 1) * TicksPerSecond

\* a call denied at quota whose exact wait is not a whole number of seconds
C1_Witness ==
    /\ AtQuota
    /\ ~rl.allowed
    /\ (WindowTicks - (rl.now - OldestRecent)) % TicksPerSecond # 0

\* C2: once 3600 s have passed since the earliest recorded request of a user,
\* the next call drops that request from the record and counts only the
\* requests still in the window; a user at quota is admitted again.
C2_WindowSlides ==
    (rl.user \in Users /\ rl.pre # <<>> /\ rl.now - rl.pre[1] >= WindowTicks) =>
        LET post == USER_DOWNLOADS[rl.user]
        IN  /\ rl.allowed
            /\ \A i \in DOMAIN post : rl.now - post[i] < WindowTicks
            /\ Len(post) = Cardinality(InWindow(rl.pre, rl.now)) + 1

\* a user whose latest request was denied with 10 recorded requests is
\* admitted once the window of the earliest of them has passed
C2_Witness ==
    /\ rl.user \in Users
    /\ rl.deniedBefore
    /\ Len(rl.pre) = MAX_DOWNLOADS_PER_HOUR
    /\ rl.now - rl.pre[1] >= WindowTicks
    /\ rl.allowed

\* C4: whatever the order in which the overlapping requests of a user are
\* received and handled, no 3600 s window holds more than 10 admitted requests
\* of the user (so of two requests competing for the last slot at most one is
\* admitted), and the record never holds more than 10 in-window timestamps.
C4_AtomicCheck ==
    \A u \in Users :
        /\ \A i \in DOMAIN admits[u] :
               Cardinality({j \in DOMAIN admits[u] :
                               j >= i /\ admits[u][j] - admits[u][i] < WindowTicks})
                   <= MAX_DOWNLOADS_PER_HOUR
        /\ Cardinality(InWindow(Record(USER_DOWNLOADS, u), clock))
               <= MAX_DOWNLOADS_PER_HOUR

\* a request sent while another request of the same user was in flight and
\* the record held 9 in-window timestamps: the other one took the last slot
\* and this one is denied
C4_Witness ==
    /\ task.pc = "done"
    /\ task.kind = "text"
    /\ task.inflight >= 1
    /\ task.slots = MAX_DOWNLOADS_PER_HOUR - 1
    /\ rl.user = task.user
    /\ Len(rl.pre) = MAX_DOWNLOADS_PER_HOUR
    /\ ~rl.allowed
(* ----------------------------- bot claims ----------------------------- *)
\* C3: in any 3600 s window at most 10 download runs are started for a user.
C3_RunsPerWindow ==
    \A u \in Users :
        \A i \in DOMAIN runs[u] :
            Cardinality({j \in DOMAIN runs[u] :
                            j >= i /\ runs[u][j] - runs[u][i] < WindowTicks})
                <= MAX_DOWNLOADS_PER_HOUR

\* button_handler has ended a request that reached the download step
DownloadEnded == task.pc = "done" /\ task.started

\* C5: once the extractor has written a file for a request, the file is gone
\* when button_handler ends, unless the removal in the finally block failed.
C5_NoFileLeft ==
    (DownloadEnded /\ task.written # NoPath /\ ~task.rmfail) =>
        task.written \notin DOMAIN fs

\* C6: while the download of one user is in progress, the update another user
\* has sent can be taken up by the dispatcher.
C6_NoBlocking ==
    (/\ task.pc \in {"dl_extract", "dl_rename"}
     /\ queue # <<>>
     /\ Head(queue).user # task.user) => ENABLED Dispatch

Artifacts == {i \in DOMAIN replies : replies[i].kind \in {"video", "audio"}}

ErrorCategories ==
    {"RestrictedContent", "CopyrightOrBlocked", "ConverterMissing",
     "UpstreamTimeout", "SizeExceeded", "Unknown"}

ErrorMessages ==
    {i \in DOMAIN replies :
        replies[i].kind = "text" /\ replies[i].tpl \in ErrorCategories}

RetryAndStart == <<task.action \o S_pipe \o task.url, S_start>>

\* the size check has read the size of the file the download step returned
SizeRead == DownloadEnded /\ task.sized

\* C7 as stated: the artifact reaches the user if and only if the size is at
\* most 49 MiB; above it nothing is sent as video or audio and the user gets
\* the SizeExceeded message with the retry and start buttons.
C7_SentIffFits ==
    SizeRead =>
        /\ (Artifacts # {}) <=> (task.file_size <= 49 * 1024 * 1024)
        /\ task.file_size > 49 * 1024 * 1024 =>
               /\ Artifacts = {}
               /\ \E i \in ErrorMessages :
                      /\ replies[i].tpl = "SizeExceeded"
                      /\ replies[i].buttons = RetryAndStart

\* C7 amended: the upload of the artifact is started if and only if the size
\* is at most 49 MiB, and the artifact reaches the user if and only if in
\* addition the upload does not fail; above 49 MiB nothing is sent as video or
\* audio and the user gets the SizeExceeded message with the two buttons.
C7_SizeGuard ==
    SizeRead =>
        /\ (task.upload # "none") <=> (task.file_size <= 49 * 1024 * 1024)
        /\ (Artifacts # {}) <=>
               (task.file_size <= 49 * 1024 * 1024 /\ task.upload # "failed")
        /\ task.file_size > 49 * 1024 * 1024 =>
               /\ Artifacts = {}
               /\ \E i \in ErrorMessages :
                      /\ replies[i].tpl = "SizeExceeded"
                      /\ replies[i].buttons = RetryAndStart

\* a file one byte over the limit: nothing sent, the SizeExceeded message shown
C7_Witness ==
    /\ SizeRead
    /\ task.file_size = 49 * 1024 * 1024 + 1
    /\ Artifacts = {}
    /\ \E i \in ErrorMessages : replies[i].tpl = "SizeExceeded"

\* the artifact with its caption, then the "download another" control
Delivered ==
    /\ Len(replies) >= 2
    /\ LET art == replies[Len(replies) - 1]
           more == replies[Len(replies)]
       IN  /\ art.kind = (IF task.action = S_video THEN "video" ELSE "audio")
           /\ art.args = <<Take(task.title, 45), format_duration(task.duration),
                           format_size(task.file_size)>>
           /\ more.kind = "text"
           /\ more.tpl = "completed"
           /\ more.buttons[1] = S_start

ReferenceTable ==
    << [category |-> "RestrictedContent",
        keywords |-> {S_private, S_sign_in, S_age, S_confirm_your_age}],
       [category |-> "CopyrightOrBlocked",
        keywords |-> {S_copyright, S_blocked, S_unavailable}],
       [category |-> "ConverterMissing", keywords |-> {S_ffmpeg, S_ffprobe}],
       [category |-> "UpstreamTimeout",
        keywords |-> {S_timed_out, S_timeout, S_socket}],
       [category |-> "SizeExceeded",
        keywords |-> {S_file_too_large, S_49mb, S_50mb}] >>

\* rows of the table with a keyword in text
Matching(text) ==
    {k \in DOMAIN ReferenceTable :
        \E w \in ReferenceTable[k].keywords : Contains(text, w)}

\* the category the button_handler has shown for the exception it caught
ShownCategory == replies[CHOOSE i \in ErrorMessages : TRUE].tpl

\* C9: the category button_handler shows is the one of the first row of the
\* reference table with a keyword in the lower-cased error text, and Unknown
\* if and only if no row has one; one category for every text.
C9_ClassifyIsTable ==
    (task.pc \in {"bh_finally", "done"} /\ task.error # <<>>) =>
        LET rows == Matching(LowerStr(task.error))
        IN  /\ Cardinality(ErrorMessages) = 1
            /\ (rows = {}) <=> (ShownCategory = "Unknown")
            /\ rows # {} =>
                   ShownCategory =
                       ReferenceTable[CHOOSE k \in rows : \A j \in rows : k <= j].category

\* a text with keywords of two rows is shown as the category of the first
C9_Witness ==
    /\ task.pc = "done"
    /\ Cardinality(Matching(LowerStr(task.error))) >= 2
    /\ 1 \notin Matching(LowerStr(task.error))
    /\ 2 \in Matching(LowerStr(task.error))
    /\ ShownCategory = "CopyrightOrBlocked"

\* C10: every error of the download step ends as exactly one templated error
\* message with the retry and the start control, button_handler runs to its
\* end, and the raw error text is shown only in the Unknown category, cut to
\* 120 characters.
C10_ErrorsReported ==
    /\ task.pc = "bh_finally" /\ task.error # <<>> =>
           Cardinality(ErrorMessages) = 1
    /\ (DownloadEnded /\ task.error # <<>>) =>
           /\ Cardinality(ErrorMessages) = 1
           /\ Artifacts = {}
           /\ LET m == replies[CHOOSE i \in ErrorMessages : TRUE]
              IN  /\ m = replies[Len(replies)]
                  /\ m.buttons = RetryAndStart
                  /\ m.tpl = "Unknown" =>
                         /\ m.args = <<Take(task.error, 120)>>
                         /\ Len(m.args[1]) <= 120
                  /\ m.tpl # "Unknown" =>
                         \A k \in DOMAIN m.args : ~Contains(m.args[k], task.error)

\* an error text of more than 120 characters is shown cut to 120
C10_Witness ==
    /\ DownloadEnded
    /\ Len(task.error) > 120
    /\ \E i \in ErrorMessages :
           /\ replies[i].tpl = "Unknown"
           /\ Len(replies[i].args[1]) = 120

(* -------------------------- handler claims ---------------------------- *)
\* none of the recognised host fragments is in text
NoHostFragment(text) ==
    /\ ~Contains(text, <<"y", "o", "u", "t", "u", "b", "e", ".", "c", "o", "m">>)
    /\ ~Contains(text, <<"y", "o", "u", "t", "u", ".", "b", "e">>)
    /\ ~Contains(text, <<"y", "o", "u", "t", "u", "b", "e", "-", "n", "o", "c",
                         "o", "o", "k", "i", "e", ".", "c", "o", "m">>)

\* C11: the step handle_url takes for a text with none of the host fragments
\* ends the handler with the validation-error message as its only reply, no
\* buttons on it, USER_DOWNLOADS and the files as they were and no metadata
\* fetch started.
C11_InvalidTextOnlyGuidance ==
    [][(/\ task.pc = "hu_start"
        /\ task'.pc # "hu_start"
        /\ NoHostFragment(Strip(task.data)))
         => /\ task'.pc = "done"
            /\ replies' = <<Msg("text", "url_error", <<>>, <<>>)>>
            /\ USER_DOWNLOADS' = USER_DOWNLOADS
            /\ fs' = fs
            /\ runs' = runs]_vars

\* handle_url has answered "hello" with the validation error and the sender
\* has no rate-limit record
C11_Witness ==
    /\ task.pc = "done"
    /\ task.kind = "text"
    /\ task.data = TEXT_HELLO
    /\ replies = <<Msg("text", "url_error", <<>>, <<>>)>>
    /\ task.user \notin DOMAIN USER_DOWNLOADS

\* the payloads button_handler answers with a static view
StaticPayloads ==
    { <<"s", "t", "a", "r", "t">>, <<"a", "b", "o", "u", "t">>,
      <<"t", "e", "r", "m", "s">>,
      <<"h", "e", "l", "p", "_", "s", "t", "a", "r", "t">> }

CancelPayload == <<"c", "a", "n", "c", "e", "l">>

\* C12: the step button_handler takes for cancel, a static literal or a
\* payload without "|" ends the handler with one edit of the message and
\* without a download started, a file created or deleted or a change of
\* USER_DOWNLOADS; cancel shows the cancellation message and a payload
\* without "|" that is no literal the data-error message, both without
\* buttons.
C12_NoDownloadForStaticPayloads ==
    [][(/\ task.pc = "bh_start"
        /\ task'.pc # "bh_start"
        /\ \/ task.data \in StaticPayloads \cup {CancelPayload}
           \/ ~Contains(task.data, <<"|">>))
         => /\ task'.pc = "done"
            /\ ~task'.started
            /\ Len(replies') = 1
            /\ replies'[1].kind = "edit"
            /\ fs' = fs
            /\ runs' = runs
            /\ USER_DOWNLOADS' = USER_DOWNLOADS
            /\ task.data = CancelPayload =>
                   replies' = <<Msg("edit", "cancelled", <<>>, <<>>)>>
            /\ task.data \notin StaticPayloads \cup {CancelPayload} =>
                   replies' = <<Msg("edit", "data_error", <<>>, <<>>)>>]_vars

\* a payload without separator has been answered with the data error while a
\* file of an earlier request is still in the temporary directory
C12_Witness ==
    /\ task.pc = "done"
    /\ task.kind = "callback"
    /\ task.data = P_malformed
    /\ replies = <<Msg("edit", "data_error", <<>>, <<>>)>>
    /\ ~task.started
    /\ fs # <<>>

\* C13: when TELEGRAM_BOT_TOKEN is not set, or the token is not one Telegram
\* has issued, main registers no handler and does not reach run_polling, and
\* when it has returned it has printed a diagnostic message.
C13_RefusesToStart ==
    (~app.env_set \/ app.token # TOKEN_REAL) =>
        /\ app.handlers = <<>>
        /\ app.pc \notin {"run_polling", "polling", "crashed"}
        /\ app.pc = "returned" => app.printed # <<>>

\* C14: whenever handle_url denies a request, the seconds check_rate_limit
\* has returned are more than 0 and the hours and minutes of the message are
\* not both 0.
C14_WaitNonzero ==
    /\ (rl.user \in Users /\ ~rl.allowed) => rl.info > 0
    /\ \A i \in DOMAIN replies :
           replies[i].tpl = "wait" => replies[i].args # <<0, 0>>

\* C19: the retry control of the error message of a failed download carries
\* the payload that was pressed, character for character.
C19_RetrySamePayload ==
    (task.pc \in {"bh_finally", "done"} /\ task.started /\ task.error # <<>>) =>
        \E i \in DOMAIN replies :
            /\ replies[i].tpl \in ErrorCategories
            /\ Len(replies[i].buttons) = 2
            /\ replies[i].buttons[1] = task.data

\* the download for a payload whose url holds "|" has failed and the retry
\* control carries the whole payload
C19_Witness ==
    /\ task.pc = "done"
    /\ task.data = P_video_piped
    /\ task.url = URL_A \o <<"|", "b">>
    /\ task.error # <<>>
    /\ replies[Len(replies)].buttons[1] = P_video_piped

\* C20: for every valid and admitted link, with or without metadata,
\* handle_url ends without an exception and its last message carries exactly
\* the controls video|<url>, audio|<url> and cancel, in the "found" or in the
\* "detected" form.
C20_ThreeControls ==
    (/\ task.pc = "done"
     /\ task.kind = "text"
     /\ replies # <<>>
     /\ replies[1].tpl = "processing") =>
        /\ ~task.escaped
        /\ Len(replies) = 2
        /\ replies[2].tpl \in {"found", "detected"}
        /\ replies[2].buttons =
               << <<"v", "i", "d", "e", "o", "|">> \o Strip(task.data),
                  <<"a", "u", "d", "i", "o", "|">> \o Strip(task.data),
                  <<"c", "a", "n", "c", "e", "l">> >>

(* --------------------------- claims on files -------------------------- *)
\* C21: a step that removes or overwrites a file does it to a file of the
\* request that takes the step or of a request that has ended, and the file a
\* request sends is one it has written itself.
C21_OwnFilesOnly ==
    [][/\ \A p \in DOMAIN own.file :
              (\/ p \notin DOMAIN own'.file
               \/ own'.file[p] # own.file[p]
               \/ fs'[p] # fs[p])
                 => (own.file[p] = task.id \/ own.file[p] \in own.ended)
       /\ (task.pc = "bh_sending" /\ task'.upload = "sent")
              => /\ task.filepath \in DOMAIN own.file
                 /\ own.file[task.filepath] = task.id]_vars

\* a request sent while another request of the same user was handled has
\* written over the file that request left at the same path, after that
\* request had ended, and has delivered its own
C21_Witness ==
    /\ task.pc = "done"
    /\ task.upload = "sent"
    /\ task.inflight >= 1
    /\ \E c \in own.clash :
           c.by = task.id /\ c.ended /\ c.path = JoinPath(TEMP_DIR, task.title \o S_mp4)

\* the files the running request has written and that exist
OwnFiles == {p \in DOMAIN own.file : own.file[p] = task.id}

C24_DownloadOnlyForSelectors ==
    (task.kind = "callback" /\ Len(Split1(task.data, "|")) = 2) =>
        LET action == Split1(task.data, "|")[1]
        IN  /\ task.started => action \in {S_video, S_audio}
            /\ (task.started /\ task.file_type = "video") => action = S_video
            /\ (task.started /\ task.file_type = "audio") => action = S_audio

(* ------------------- claims on the rate-limit record ------------------ *)
\* C17: the record of every user holds at most 10 timestamps, in
\* non-decreasing order.
C17_RecordBoundedAndOrdered ==
    \A u \in DOMAIN USER_DOWNLOADS :
        /\ Len(USER_DOWNLOADS[u]) <= 10
        /\ \A i, j \in DOMAIN USER_DOWNLOADS[u] :
               i < j => USER_DOWNLOADS[u][i] <= USER_DOWNLOADS[u][j]

\* a full record whose timestamps are not all the same
C17_Witness ==
    \E u \in DOMAIN USER_DOWNLOADS :
        /\ Len(USER_DOWNLOADS[u]) = 10
        /\ USER_DOWNLOADS[u][1] < USER_DOWNLOADS[u][10]

\* C18 as stated: in every state every stored timestamp is less than 3600 s
\* older than the current time.
C18_AlwaysInWindow ==
    \A u \in DOMAIN USER_DOWNLOADS :
        \A i \in DOMAIN USER_DOWNLOADS[u] :
            clock - USER_DOWNLOADS[u][i] < 3600 * TicksPerSecond

\* C18 amended: every timestamp in the record of the user of the latest
\* check_rate_limit call is less than 3600 s older than the time of that call.
C18_InWindowAtCheck ==
    rl.user \in Users =>
        \A i \in DOMAIN USER_DOWNLOADS[rl.user] :
            rl.now - USER_DOWNLOADS[rl.user][i] < 3600 * TicksPerSecond

\* a call that found timestamps of 3600 s and more in the record and kept
\* some of the others
C18_Witness ==
    /\ rl.user \in Users
    /\ \E i \in DOMAIN rl.pre : rl.now - rl.pre[i] >= 3600 * TicksPerSecond
    /\ \E i \in DOMAIN rl.pre : rl.now - rl.pre[i] < 3600 * TicksPerSecond
    /\ Len(USER_DOWNLOADS[rl.user]) >= 2

\* C23: a step changes no record but that of the user whose request is being
\* handled (a check_rate_limit call for u, admitted or denied, leaves the
\* record of every other user as it was), and the outcome of a call is decided
\* by the caller's own earlier admitted requests and the time of the call.
C23_UsersIndependent ==
    /\ [][\A v \in Users :
              v # task.user =>
                  /\ (v \in DOMAIN USER_DOWNLOADS') = (v \in DOMAIN USER_DOWNLOADS)
                  /\ Record(USER_DOWNLOADS', v) = Record(USER_DOWNLOADS, v)]_vars
    /\ [](rl.user \in Users =>
              (rl.allowed <=> Cardinality(RecentAdmits) < MAX_DOWNLOADS_PER_HOUR))

\* a call of one user is admitted while another user is at the quota and
\* holds a full record
C23_Witness ==
    /\ rl.user \in Users
    /\ rl.allowed
    /\ \E v \in Users \ {rl.user} :
           /\ v \in DOMAIN USER_DOWNLOADS
           /\ Cardinality(InWindow(USER_DOWNLOADS[v], rl.now)) >= MAX_DOWNLOADS_PER_HOUR

(* ---------------------- sanitize_filename claims ---------------------- *)
\* C15: what sanitize_filename returns is left as it is by a second
\* application of sanitize_filename.
C15_SanitizeIdempotent ==
    task.pc = "sanitize_ret" => sanitize_filename(task.title) = task.title

\* a title of more than 50 characters whose 50th is whitespace and whose
\* 51st is an illegal character
C15_Witness ==
    /\ task.pc = "sanitize_ret"
    /\ Len(task.rawtitle) > 50
    /\ task.rawtitle[50] = " "
    /\ task.rawtitle[51] = "*"
    /\ Len(task.title) = 49

\* C16: what sanitize_filename returns is not empty, has at most 50
\* characters, none of < > : " / \ | ? * and no whitespace; for a title that
\* is empty or holds only whitespace and illegal characters it is the
\* sentinel name.
C16_SanitizeOutput ==
    task.pc = "sanitize_ret" =>
        LET bad == {"<", ">", ":", "\"", "/", "\\", "|", "?", "*"}
            blank == {" ", "\t", "\n"}
        IN  /\ task.title # <<>>
            /\ Len(task.title) <= 50
            /\ \A i \in DOMAIN task.title : task.title[i] \notin bad \cup blank
            /\ (\A i \in DOMAIN task.rawtitle : task.rawtitle[i] \in bad \cup blank)
                   => task.title = <<"v", "i", "d", "e", "o", "_", "s", "i", "n", "_",
                                      "t", "i", "t", "u", "l", "o">>

\* a title of whitespace and illegal characters only gives the sentinel
C16_Witness ==
    /\ task.pc = "sanitize_ret"
    /\ task.rawtitle = <<"*", " ", "/">>
    /\ task.title = S_untitled
====
